---- MODULE Spec2Model ----
(***************************************************************************)
(* A model of filter_1pux.one_password_archive: the item / vault /        *)
(* account / archive models built from the export.data JSON tree, the     *)
(* resolution of the selection spec, and write_filtered_archive.          *)
(*                                                                         *)
(* Python values are modelled as tagged records:                          *)
(*   [s |-> x] a str, [n |-> k] a number, [z |-> 0] None / JSON null,     *)
(*   [l |-> <<...>>] a list, [d |-> f] a dict (f a function from keys),   *)
(*   [t |-> <<a, b>>] a tuple, [r |-> k] a reference to the mutable dict  *)
(*   object at heap address k.                                            *)
(*   [b |-> x] a bytes object.                                            *)
(* The x of a str the code takes apart character by character (a zip     *)
(* entry name, a document id) is a sequence of one-character strings.     *)
(***************************************************************************)
EXTENDS Integers, Sequences, FiniteSets, TLC

\* ---------------------------------------------------------------- values

Str(x) == [s |-> x]
Num(k) == [n |-> k]
List(q) == [l |-> q]
Dict(f) == [d |-> f]
Tuple(a, b) == [t |-> <<a, b>>]
Ref(k) == [r |-> k]
None == [z |-> 0]

IsStr(v) == "s" \in DOMAIN v
IsList(v) == "l" \in DOMAIN v
IsDict(v) == "d" \in DOMAIN v
IsTuple(v) == "t" \in DOMAIN v
IsRef(v) == "r" \in DOMAIN v

\* Errors a call can end with ("" is a normal return).
NoError == ""
Filter1PuxError == "Filter1PuxError"
KeyError == "KeyError"
TypeError == "TypeError"
FileExistsError == "FileExistsError"
AttributeError == "AttributeError"

\* ------------------------------------------------------------ item model

\* _add_all_document_ids that descends from a list only into dicts.
RECURSIVE ListsOfDictsOnlyDocumentIds(_)
ListsOfDictsOnlyDocumentIds(subtree) ==
  IF IsList(subtree)
  THEN UNION { IF IsDict(subtree.l[i])
               THEN ListsOfDictsOnlyDocumentIds(subtree.l[i])
               ELSE {} : i \in 1..Len(subtree.l) }
  ELSE IF IsDict(subtree)
  THEN UNION { IF IsDict(subtree.d[k]) \/ IsList(subtree.d[k])
               THEN ListsOfDictsOnlyDocumentIds(subtree.d[k])
               ELSE IF k = "documentId" /\ IsStr(subtree.d[k])
               THEN {subtree.d[k]}
               ELSE {} : k \in DOMAIN subtree.d }
  ELSE {}

\* OnePasswordItemData._add_all_document_ids: the ids it adds for subtree.
RECURSIVE AddAllDocumentIds(_)
AddAllDocumentIds(subtree) ==
  IF IsList(subtree)
  THEN UNION { IF IsDict(subtree.l[i]) \/ IsList(subtree.l[i])
               THEN AddAllDocumentIds(subtree.l[i])
               ELSE {} : i \in 1..Len(subtree.l) }
  ELSE IF IsDict(subtree)
  THEN UNION { IF IsDict(subtree.d[k]) \/ IsList(subtree.d[k])
               THEN AddAllDocumentIds(subtree.d[k])
               ELSE IF k = "documentId" /\ IsStr(subtree.d[k])
               THEN {subtree.d[k]}
               ELSE {} : k \in DOMAIN subtree.d }
  ELSE {}

\* OnePasswordItemData.__init__
OnePasswordItemData(data) ==
  [raw_data |-> data, document_ids |-> AddAllDocumentIds(data)]

\* OnePasswordItemData.item_uuid
ItemUuid(item) == item.raw_data.d.uuid

\* ----------------------------------------------------------- vault model

\* The loop of OnePasswordVaultData.__init__ from item i on; acc is the vault
\* being built (items_by_uuid maps a uuid to the item's place in items). The
\* duplicate message reads self.vault_name.
RECURSIVE VaultItemLoop(_, _, _)
VaultItemLoop(data, i, acc) ==
  IF i > Len(data.d.items.l) THEN acc
  ELSE LET raw == data.d.items.l[i]
       IN IF ~IsDict(raw) THEN [acc EXCEPT !.err = TypeError]
          ELSE IF ~("uuid" \in DOMAIN raw.d) THEN [acc EXCEPT !.err = KeyError]
          ELSE LET item_data == OnePasswordItemData(raw)
               IN IF ItemUuid(item_data) \in DOMAIN acc.items_by_uuid
                  THEN [acc EXCEPT !.err =
                          IF "name" \in DOMAIN data.d.attrs.d
                          THEN Filter1PuxError ELSE KeyError]
                  ELSE VaultItemLoop(data, i + 1,
                         [acc EXCEPT
                            !.items = Append(@, item_data),
                            !.items_by_uuid = @ @@ (ItemUuid(item_data) :> i),
                            !.document_ids = @ \cup item_data.document_ids])

\* OnePasswordVaultData.__init__
OnePasswordVaultData(data) ==
  LET empty == [err |-> NoError, raw_data |-> data, items |-> <<>>,
                items_by_uuid |-> <<>>, document_ids |-> {}]
  IN IF ~("attrs" \in DOMAIN data.d) THEN [empty EXCEPT !.err = Filter1PuxError]
     ELSE IF ~IsDict(data.d.attrs) THEN [empty EXCEPT !.err = Filter1PuxError]
     ELSE IF ~("items" \in DOMAIN data.d) THEN [empty EXCEPT !.err = Filter1PuxError]
     ELSE IF ~IsList(data.d.items) THEN [empty EXCEPT !.err = Filter1PuxError]
     ELSE VaultItemLoop(data, 1, empty)

\* OnePasswordVaultData.vault_uuid / vault_name
VaultUuid(vault) == vault.raw_data.d.attrs.d.uuid
VaultName(vault) == vault.raw_data.d.attrs.d.name

\* ------------------------------------------------------------ dict objects

\* The heap holds the mutable dict objects whose identity matters: the JSON
\* root and the account dicts json.load built, and the copies dict(...) makes.
\* An address is a position in the heap.

\* dict(heap[addr]): a new dict object with the same items, at address Len + 1.
DictCopy(heap, addr) == Append(heap, heap[addr])

\* heap[addr][key] = value
SetItem(heap, addr, key, value) ==
  [heap EXCEPT ![addr] =
     Dict([k \in DOMAIN heap[addr].d \cup {key} |->
             IF k = key THEN value ELSE heap[addr].d[k]])]

\* The JSON value an object stands for: every reference replaced by the
\* object it refers to.
RECURSIVE Deref(_, _)
Deref(heap, v) ==
  IF IsRef(v) THEN Deref(heap, heap[v.r])
  ELSE IF IsList(v) THEN List([i \in 1..Len(v.l) |-> Deref(heap, v.l[i])])
  ELSE IF IsDict(v) THEN Dict([k \in DOMAIN v.d |-> Deref(heap, v.d[k])])
  ELSE v

\* json.load of an entry's bytes: the root dict is object 1 and the elements
\* of its 'accounts' list are objects 2, 3, ...
JsonLoad(content) ==
  LET v == content.json
  IN IF IsDict(v) /\ "accounts" \in DOMAIN v.d /\ IsList(v.d.accounts)
     THEN LET n == Len(v.d.accounts.l)
          IN <<Dict([k \in DOMAIN v.d |->
                       IF k = "accounts" THEN List([i \in 1..n |-> Ref(i + 1)])
                       ELSE v.d[k]])>>
             \o v.d.accounts.l
     ELSE <<v>>

\* json.dumps(content, indent=2, sort_keys=True).encode('utf-8')
JsonDumps(heap, content) == [json |-> Deref(heap, content)]

\* --------------------------------------------------------- account model

\* The check of a repeated vault uuid in OnePasswordAccountData.__init__.
DuplicateVaultUuid(acc, vault) ==
  VaultUuid(vault) \in DOMAIN acc.unfiltered_vaults_by_uuid

\* No check of a repeated vault name.
NoDuplicateVaultName(acc, vault) == FALSE

\* The check of a repeated vault name in OnePasswordAccountData.__init__.
DuplicateVaultName(acc, vault) ==
  VaultName(vault) \in DOMAIN acc.unfiltered_vaults_by_name

\* The test of a vault against the tokens by its name alone.
VaultSelectedByNameOnly(vault, vault_name_set) ==
  VaultName(vault) \in vault_name_set

\* The test of a vault against the tokens in OnePasswordAccountData.__init__.
VaultSelected(vault, vault_name_set) ==
  \/ VaultUuid(vault) \in vault_name_set
  \/ VaultName(vault) \in vault_name_set

\* The vault loop of OnePasswordAccountData.__init__ from vault i on. The
\* filtered list holds the same vault objects as the unfiltered one: a vault
\* object is named by its place in unfiltered_vaults. filt* are the separate
\* filtered collections of the branch that does not include all vaults.
RECURSIVE AccountVaultLoop(_, _, _, _, _)

\* The error of a repeated vault: its message reads attrs['accountName'].
DuplicateVaultError(data) ==
  IF "accountName" \in DOMAIN data.d.attrs.d THEN Filter1PuxError ELSE KeyError

\* The vault added to the collections of the account; sel: to the filtered
\* ones as well.
AddVault(acc, i, vault, sel) ==
  [acc EXCEPT
     !.unfiltered_vaults = Append(@, vault),
     !.unfiltered_vaults_by_uuid = @ @@ (VaultUuid(vault) :> i),
     !.unfiltered_vaults_by_name = @ @@ (VaultName(vault) :> i),
     !.unfiltered_document_ids = @ \cup vault.document_ids,
     !.filt_vaults = IF sel THEN Append(@, i) ELSE @,
     !.filt_vaults_by_uuid = IF sel THEN @ @@ (VaultUuid(vault) :> i) ELSE @,
     !.filt_vaults_by_name = IF sel THEN @ @@ (VaultName(vault) :> i) ELSE @,
     !.filt_document_ids = IF sel THEN @ \cup vault.document_ids ELSE @]

\* One turn of the vault loop, vault the OnePasswordVaultData built from
\* vault i.
AccountVaultStep(data, vault_name_set, include_all_vaults, i, acc, vault) ==
  IF vault.err # NoError THEN [acc EXCEPT !.err = vault.err]
  ELSE IF ~("uuid" \in DOMAIN vault.raw_data.d.attrs.d)
  THEN [acc EXCEPT !.err = KeyError]
  ELSE IF DuplicateVaultUuid(acc, vault)
  THEN [acc EXCEPT !.err = DuplicateVaultError(data)]
  ELSE IF ~("name" \in DOMAIN vault.raw_data.d.attrs.d)
  THEN [acc EXCEPT !.err = KeyError]
  ELSE IF DuplicateVaultName(acc, vault)
  THEN [acc EXCEPT !.err = DuplicateVaultError(data)]
  ELSE AccountVaultLoop(data, vault_name_set, include_all_vaults, i + 1,
         AddVault(acc, i, vault,
                  ~include_all_vaults /\ VaultSelected(vault, vault_name_set)))

AccountVaultLoop(data, vault_name_set, include_all_vaults, i, acc) ==
  IF i > Len(data.d.vaults.l) THEN acc
  ELSE AccountVaultStep(data, vault_name_set, include_all_vaults, i, acc,
                        OnePasswordVaultData(data.d.vaults.l[i]))

\* self._filtered_data of the branch that does not include all vaults:
\* dict(self._unfiltered_data) with 'vaults' replaced.
AccountFilteredData(heap, addr, vaults_data) ==
  [heap |-> SetItem(DictCopy(heap, addr), Len(heap) + 1, "vaults",
                    List(vaults_data)),
   addr |-> Len(heap) + 1]

\* The account before its vault loop has run.
EmptyAccount(addr) ==
  [err |-> NoError, unfiltered_data |-> addr, filtered_data |-> addr,
   unfiltered_vaults |-> <<>>, unfiltered_vaults_by_uuid |-> <<>>,
   unfiltered_vaults_by_name |-> <<>>, unfiltered_document_ids |-> {},
   filt_vaults |-> <<>>, filt_vaults_by_uuid |-> <<>>,
   filt_vaults_by_name |-> <<>>, filt_document_ids |-> {}]

\* The account that includes all its vaults: the filtered attributes are the
\* unfiltered objects themselves.
AccountAllVaults(heap, addr, acc) ==
  [err |-> NoError, heap |-> heap,
   account |->
     [unfiltered_data |-> addr,
      filtered_data |-> addr,
      unfiltered_vaults |-> acc.unfiltered_vaults,
      unfiltered_vaults_by_uuid |-> acc.unfiltered_vaults_by_uuid,
      unfiltered_vaults_by_name |-> acc.unfiltered_vaults_by_name,
      unfiltered_document_ids |-> acc.unfiltered_document_ids,
      filtered_vaults |-> [i \in 1..Len(acc.unfiltered_vaults) |-> i],
      filtered_vaults_by_uuid |-> acc.unfiltered_vaults_by_uuid,
      filtered_vaults_by_name |-> acc.unfiltered_vaults_by_name,
      filtered_document_ids |-> acc.unfiltered_document_ids]]

\* The account with separate filtered collections; fd is its filtered_data.
AccountSomeVaults(addr, acc, fd) ==
  [err |-> NoError, heap |-> fd.heap,
   account |->
     [unfiltered_data |-> addr,
      filtered_data |-> fd.addr,
      unfiltered_vaults |-> acc.unfiltered_vaults,
      unfiltered_vaults_by_uuid |-> acc.unfiltered_vaults_by_uuid,
      unfiltered_vaults_by_name |-> acc.unfiltered_vaults_by_name,
      unfiltered_document_ids |-> acc.unfiltered_document_ids,
      filtered_vaults |-> acc.filt_vaults,
      filtered_vaults_by_uuid |-> acc.filt_vaults_by_uuid,
      filtered_vaults_by_name |-> acc.filt_vaults_by_name,
      filtered_document_ids |-> acc.filt_document_ids]]

\* OnePasswordAccountData.__init__ after its vault loop has left acc.
AccountAfterLoop(heap, addr, include_all_vaults, acc) ==
  IF acc.err # NoError
  THEN [err |-> acc.err, heap |-> heap, account |-> EmptyAccount(addr)]
  ELSE IF include_all_vaults THEN AccountAllVaults(heap, addr, acc)
  ELSE AccountSomeVaults(addr, acc,
         AccountFilteredData(heap, addr,
           [j \in 1..Len(acc.filt_vaults) |->
              acc.unfiltered_vaults[acc.filt_vaults[j]].raw_data]))

\* OnePasswordAccountData.__init__(data, include_vault_names), data the dict
\* object at addr. Returns the account, the heap after it and the error.
OnePasswordAccountData(heap, addr, include_vault_names) ==
  LET data == heap[addr]
      fail == [err |-> Filter1PuxError, heap |-> heap,
               account |-> EmptyAccount(addr)]
  IN IF ~("attrs" \in DOMAIN data.d) THEN fail
     ELSE IF ~IsDict(data.d.attrs) THEN fail
     ELSE IF ~("vaults" \in DOMAIN data.d) THEN fail
     ELSE IF ~IsList(data.d.vaults) THEN fail
     ELSE AccountAfterLoop(heap, addr, None \in include_vault_names,
            AccountVaultLoop(data, include_vault_names,
                             None \in include_vault_names, 1,
                             EmptyAccount(addr)))

\* ------------------------------------------------------- zip containers

\* A zip file is the sequence of its entries in infolist() order; an entry
\* is [filename, content]. ZipFile.getinfo(name): the place of the entry of
\* that name (the last one, when several share it), 0 for KeyError.
GetInfo(zf, name) ==
  LET at == {i \in 1..Len(zf) : zf[i].filename = name}
  IN IF at = {} THEN 0 ELSE CHOOSE i \in at : \A j \in at : j <= i

EXPORT_ATTRIBUTES ==
  Str(<<"e","x","p","o","r","t",".","a","t","t","r","i","b","u","t","e","s">>)
EXPORT_DATA == Str(<<"e","x","p","o","r","t",".","d","a","t","a">>)
FILES_DIR == Str(<<"f","i","l","e","s","/">>)

\* str.startswith
StartsWith(str, prefix) ==
  /\ Len(str.s) >= Len(prefix.s)
  /\ SubSeq(str.s, 1, Len(prefix.s)) = prefix.s

\* OnePasswordArchive.unfiltered_zipinfos: the places in zf of the document
\* file entries, in infolist() order.
RECURSIVE UnfilteredZipinfosFrom(_, _)
UnfilteredZipinfosFrom(zf, i) ==
  IF i > Len(zf) THEN <<>>
  ELSE LET filename == zf[i].filename
       IN (IF filename \notin {EXPORT_ATTRIBUTES, EXPORT_DATA, FILES_DIR}
              /\ StartsWith(filename, FILES_DIR)
           THEN <<i>> ELSE <<>>)
          \o UnfilteredZipinfosFrom(zf, i + 1)

UnfilteredZipinfos(zf) == UnfilteredZipinfosFrom(zf, 1)

\* OnePasswordArchive.filename_to_document_id; eoid counts from 0 as in the
\* code, so filename[6:eoid] is SubSeq(_, 7, eoid).
FilenameToDocumentId(filename) ==
  LET us == {i \in 1..Len(filename.s) : filename.s[i] = "_"}
      eoid == IF us # {} THEN (CHOOSE i \in us : \A j \in us : i <= j) - 1
              ELSE Len(filename.s)
  IN Str(SubSeq(filename.s, 7, eoid))

\* OnePasswordArchive.filtered_zipinfos
RECURSIVE FilteredZipinfosFrom(_, _, _, _)
FilteredZipinfosFrom(zf, unfiltered_zipinfos, filtered_document_ids, j) ==
  IF j > Len(unfiltered_zipinfos) THEN <<>>
  ELSE LET zi == unfiltered_zipinfos[j]
           document_id == FilenameToDocumentId(zf[zi].filename)
       IN (IF document_id \in filtered_document_ids THEN <<zi>> ELSE <<>>)
          \o FilteredZipinfosFrom(zf, unfiltered_zipinfos,
                                  filtered_document_ids, j + 1)

FilteredZipinfos(zf, unfiltered_zipinfos, filtered_document_ids) ==
  FilteredZipinfosFrom(zf, unfiltered_zipinfos, filtered_document_ids, 1)

\* OnePasswordArchive.file_document_ids
FileDocumentIds(zf, unfiltered_zipinfos) ==
  { FilenameToDocumentId(zf[unfiltered_zipinfos[j]].filename) :
      j \in 1..Len(unfiltered_zipinfos) }

\* OnePasswordArchive.new_zipinfo: result.filename is filename.encode('utf-8'),
\* a bytes object.
NewZipinfo(filename) == [filename |-> [b |-> filename.s]]

\* --------------------------------------------------------- archive model

\* add_account_vault_name that keeps '*' as a name.
AddAccountVaultNameNoWildcard(avn, account_name, vault_name) ==
  IF account_name \in DOMAIN avn
  THEN [avn EXCEPT ![account_name] = @ \cup {vault_name}]
  ELSE avn @@ (account_name :> {vault_name})

\* add_account_vault_name of OnePasswordArchive.__init__; avn is
\* account_vault_names, a dict from account token to a set of vault tokens.
AddAccountVaultName(avn, account_name, vault_name) ==
  LET a == IF account_name = Str("*") THEN None ELSE account_name
      v == IF vault_name = Str("*") THEN None ELSE vault_name
  IN IF a \in DOMAIN avn THEN [avn EXCEPT ![a] = @ \cup {v}]
     ELSE avn @@ (a :> {v})

\* The loop over include_vault_names of OnePasswordArchive.__init__, from
\* token i on.
RECURSIVE AccountVaultNamesFrom(_, _, _)
AccountVaultNamesFrom(tokens, i, avn) ==
  IF i > Len(tokens) THEN avn
  ELSE LET tok == tokens[i]
       IN AccountVaultNamesFrom(tokens, i + 1,
            IF IsTuple(tok) THEN AddAccountVaultName(avn, tok.t[1], tok.t[2])
            ELSE AddAccountVaultName(avn, None, tok))

AccountVaultNames(include_vault_names) ==
  IF include_vault_names = None THEN <<>>
  ELSE AccountVaultNamesFrom(include_vault_names.l, 1, <<>>)

\* include_account of one account in OnePasswordArchive.__init__.
IncludeAccount(avn, include_vault_names, account_name, account_uuid) ==
  \/ include_vault_names = None
  \/ None \in DOMAIN avn
  \/ account_name \in DOMAIN avn
  \/ account_uuid \in DOMAIN avn

\* vault_names that falls back to None (every vault) for every included
\* account.
VaultNamesAlwaysDefault(avn, include_vault_names, account_name, account_uuid) ==
  IF ~IncludeAccount(avn, include_vault_names, account_name, account_uuid)
  THEN {}
  ELSE {None}
       \cup (IF None \in DOMAIN avn THEN avn[None] ELSE {})
       \cup (IF account_name \in DOMAIN avn THEN avn[account_name] ELSE {})
       \cup (IF account_uuid \in DOMAIN avn THEN avn[account_uuid] ELSE {})

\* vault_names of one account in OnePasswordArchive.__init__.
VaultNames(avn, include_vault_names, account_name, account_uuid) ==
  LET has_wild == None \in DOMAIN avn
      has_name == account_name \in DOMAIN avn
      has_uuid == account_uuid \in DOMAIN avn
  IN IF ~IncludeAccount(avn, include_vault_names, account_name, account_uuid)
     THEN {}
     ELSE (IF include_vault_names = None THEN {None} ELSE {})
          \cup (IF has_wild THEN avn[None] ELSE {})
          \cup (IF has_name THEN avn[account_name] ELSE {})
          \cup (IF has_uuid THEN avn[account_uuid] ELSE {})
          \cup (IF ~has_name /\ ~has_uuid /\ ~has_wild THEN {None} ELSE {})

\* The account loop of OnePasswordArchive.__init__ from account i on; data is
\* the root dict, acc the archive being built. An account object is named by
\* its place in unfiltered_accounts.
RECURSIVE ArchiveAccountLoop(_, _, _, _, _)

\* The account added to the collections of the archive; include_account: to
\* the filtered ones as well.
AddAccount(acc, i, account_name, account_uuid, include_account, r) ==
  [acc EXCEPT
     !.heap = r.heap,
     !.unfiltered_accounts = Append(@, r.account),
     !.unfiltered_accounts_by_uuid = @ @@ (account_uuid :> i),
     !.unfiltered_accounts_by_name = @ @@ (account_name :> i),
     !.unfiltered_document_ids = @ \cup r.account.unfiltered_document_ids,
     !.filtered_accounts = IF include_account THEN Append(@, i) ELSE @,
     !.filtered_accounts_by_uuid =
        IF include_account THEN @ @@ (account_uuid :> i) ELSE @,
     !.filtered_accounts_by_name =
        IF include_account THEN @ @@ (account_name :> i) ELSE @,
     !.filtered_document_ids =
        IF include_account
        THEN @ \cup r.account.filtered_document_ids ELSE @]

\* One turn of the account loop once the OnePasswordAccountData of account i
\* has returned r.
ArchiveAccountStep(data, avn, include_vault_names, i, acc, attrs, r) ==
  IF r.err # NoError THEN [acc EXCEPT !.err = r.err]
  ELSE ArchiveAccountLoop(data, avn, include_vault_names, i + 1,
         AddAccount(acc, i, attrs.name, attrs.uuid,
                    IncludeAccount(avn, include_vault_names, attrs.name,
                                   attrs.uuid),
                    r))

ArchiveAccountLoop(data, avn, include_vault_names, i, acc) ==
  IF i > Len(data.d.accounts.l) THEN acc
  ELSE
    LET addr == data.d.accounts.l[i].r
        account_data == acc.heap[addr]
    IN IF ~IsDict(account_data) THEN [acc EXCEPT !.err = TypeError]
       ELSE IF ~("attrs" \in DOMAIN account_data.d)
       THEN [acc EXCEPT !.err = KeyError]
       ELSE IF ~IsDict(account_data.d.attrs) THEN [acc EXCEPT !.err = TypeError]
       ELSE IF ~("name" \in DOMAIN account_data.d.attrs.d)
       THEN [acc EXCEPT !.err = KeyError]
       ELSE IF account_data.d.attrs.d.name \in DOMAIN acc.unfiltered_accounts_by_name
       THEN [acc EXCEPT !.err = Filter1PuxError]
       ELSE IF ~("uuid" \in DOMAIN account_data.d.attrs.d)
       THEN [acc EXCEPT !.err = KeyError]
       ELSE IF account_data.d.attrs.d.uuid \in DOMAIN acc.unfiltered_accounts_by_uuid
       THEN [acc EXCEPT !.err = Filter1PuxError]
       ELSE ArchiveAccountStep(data, avn, include_vault_names, i, acc,
              account_data.d.attrs.d,
              OnePasswordAccountData(acc.heap, addr,
                VaultNames(avn, include_vault_names,
                           account_data.d.attrs.d.name,
                           account_data.d.attrs.d.uuid)))

\* The archive before its account loop has run, and the archive object of a
\* construction that raised. filtered_data is the address of the cached
\* filtered root, 0 for None.
EmptyArchive(heap) ==
  [err |-> NoError, heap |-> heap,
   unfiltered_accounts |-> <<>>, unfiltered_accounts_by_uuid |-> <<>>,
   unfiltered_accounts_by_name |-> <<>>, unfiltered_document_ids |-> {},
   filtered_accounts |-> <<>>, filtered_accounts_by_uuid |-> <<>>,
   filtered_accounts_by_name |-> <<>>, filtered_document_ids |-> {},
   unfiltered_zipinfos |-> <<>>, file_document_ids |-> {},
   missing_file_document_ids |-> {}, extra_file_document_ids |-> {},
   filtered_data |-> 0]

\* The end of OnePasswordArchive.__init__ raising when a referenced document
\* has no file.
StrictCrossCheck(zf, acc) ==
  LET unfiltered_zipinfos == UnfilteredZipinfos(zf)
      file_document_ids == FileDocumentIds(zf, unfiltered_zipinfos)
      missing == acc.unfiltered_document_ids \ file_document_ids
  IN IF acc.err # NoError THEN acc
     ELSE
     [acc EXCEPT
        !.err = IF missing # {} THEN Filter1PuxError ELSE NoError,
        !.unfiltered_zipinfos = unfiltered_zipinfos,
        !.file_document_ids = file_document_ids,
        !.missing_file_document_ids = missing,
        !.extra_file_document_ids =
           file_document_ids \ acc.unfiltered_document_ids]

\* The end of OnePasswordArchive.__init__: the document ids of the items
\* against those of the files, both differences only printed.
CrossCheck(zf, acc) ==
  LET unfiltered_zipinfos == UnfilteredZipinfos(zf)
      file_document_ids == FileDocumentIds(zf, unfiltered_zipinfos)
  IN IF acc.err # NoError THEN acc
     ELSE
     [acc EXCEPT
        !.unfiltered_zipinfos = unfiltered_zipinfos,
        !.file_document_ids = file_document_ids,
        !.missing_file_document_ids =
           acc.unfiltered_document_ids \ file_document_ids,
        !.extra_file_document_ids =
           file_document_ids \ acc.unfiltered_document_ids]

\* OnePasswordArchive.__init__ from its account loop on, data (the root,
\* heap[1]) being the result of get_unfiltered_data. The loop iterates
\* data['accounts'] whatever it is: an empty dict gives no turn, any other
\* value that is no list a TypeError.
ArchiveLoaded(zf, include_vault_names, heap) ==
  IF ~IsDict(heap[1]) THEN [EmptyArchive(heap) EXCEPT !.err = TypeError]
  ELSE IF ~("accounts" \in DOMAIN heap[1].d)
  THEN [EmptyArchive(heap) EXCEPT !.err = KeyError]
  ELSE IF IsDict(heap[1].d.accounts) /\ DOMAIN heap[1].d.accounts.d = {}
  THEN CrossCheck(zf, EmptyArchive(heap))
  ELSE IF ~IsList(heap[1].d.accounts)
  THEN [EmptyArchive(heap) EXCEPT !.err = TypeError]
  ELSE CrossCheck(zf,
         ArchiveAccountLoop(heap[1], AccountVaultNames(include_vault_names),
                            include_vault_names, 1, EmptyArchive(heap)))

\* OnePasswordArchive.__init__ after the ZipFile is open: get_unfiltered_data,
\* the account loop and the cross-check.
ArchiveInit(zf, include_vault_names) ==
  IF GetInfo(zf, EXPORT_DATA) = 0
  THEN [EmptyArchive(<<>>) EXCEPT !.err = KeyError]
  ELSE ArchiveLoaded(zf, include_vault_names,
                     JsonLoad(zf[GetInfo(zf, EXPORT_DATA)].content))

\* get_filtered_data without the copy: 'accounts' is assigned on the
\* unfiltered root itself.
NoCopyFilteredRoot(heap, accounts_data) ==
  [heap |-> SetItem(heap, 1, "accounts", List(accounts_data)), addr |-> 1]

\* result of OnePasswordArchive.get_filtered_data: dict(root) with 'accounts'
\* replaced.
FilteredRoot(heap, accounts_data) ==
  [heap |-> SetItem(DictCopy(heap, 1), Len(heap) + 1, "accounts",
                    List(accounts_data)),
   addr |-> Len(heap) + 1]

\* OnePasswordArchive.get_filtered_data: the archive after the call (the
\* result is its filtered_data).
GetFilteredData(ar) ==
  IF ar.filtered_data # 0 THEN ar
  ELSE LET accounts_data ==
             [j \in 1..Len(ar.filtered_accounts) |->
                Ref(ar.unfiltered_accounts[ar.filtered_accounts[j]].filtered_data)]
           fr == FilteredRoot(ar.heap, accounts_data)
       IN [ar EXCEPT !.heap = fr.heap, !.filtered_data = fr.addr]

\* ------------------------------------------------- write_filtered_archive

\* A path holds no file, a file that is no archive, or a zip file: its
\* entries, and over, the file its bytes were written over.
Absent == [absent |-> TRUE]
OldFile == [bytes |-> <<"old">>]
IsZip(file) == "zip" \in DOMAIN file
EmptyBytes == [bytes |-> <<>>]

\* dest_archive.open(zi, mode='w') and the write of content: entries is the
\* destination so far. FileHeader() encodes zi.filename, which must be a str.
ZipWrite(entries, zi, content) ==
  IF ~IsStr(zi.filename) THEN [err |-> AttributeError, entries |-> entries]
  ELSE [err |-> NoError,
        entries |-> Append(entries, [filename |-> zi.filename,
                                     content |-> content])]

\* The loop over filtered_zipinfos stopping one entry short.
RECURSIVE CopyFilteredButLast(_, _, _, _)
CopyFilteredButLast(zf, filtered_zipinfos, j, w) ==
  IF j >= Len(filtered_zipinfos) \/ w.err # NoError THEN w
  ELSE CopyFilteredButLast(zf, filtered_zipinfos, j + 1,
         ZipWrite(w.entries, zf[filtered_zipinfos[j]],
                  zf[filtered_zipinfos[j]].content))

\* The loop of write_filtered_archive over filtered_zipinfos, from the j-th on.
RECURSIVE CopyFilteredFrom(_, _, _, _)
CopyFilteredFrom(zf, filtered_zipinfos, j, w) ==
  IF j > Len(filtered_zipinfos) \/ w.err # NoError THEN w
  ELSE CopyFilteredFrom(zf, filtered_zipinfos, j + 1,
         ZipWrite(w.entries, zf[filtered_zipinfos[j]],
                  zf[filtered_zipinfos[j]].content))

\* The body of "with ZipFile(file, mode='x') as zf" in write_filtered_archive:
\* the entries written and the error that ended it, for the archive ar (after
\* get_filtered_data) over the source zf.
WriteEntries(zf, ar) ==
  LET attrs_at == GetInfo(zf, EXPORT_ATTRIBUTES)
      data_at == GetInfo(zf, EXPORT_DATA)
      dir_at == GetInfo(zf, FILES_DIR)
      w1 == ZipWrite(<<>>, zf[attrs_at], zf[attrs_at].content)
      w2 == ZipWrite(w1.entries, zf[data_at],
                     JsonDumps(ar.heap, Ref(ar.filtered_data)))
      w3 == ZipWrite(w2.entries,
                     IF dir_at # 0 THEN zf[dir_at] ELSE NewZipinfo(FILES_DIR),
                     EmptyBytes)
  IN IF attrs_at = 0 THEN [err |-> KeyError, entries |-> <<>>]
     ELSE IF w1.err # NoError THEN w1
     ELSE IF data_at = 0 THEN [err |-> KeyError, entries |-> w1.entries]
     ELSE IF w2.err # NoError THEN w2
     ELSE IF w3.err # NoError THEN w3
     ELSE CopyFilteredFrom(zf,
            FilteredZipinfos(zf, ar.unfiltered_zipinfos, ar.filtered_document_ids),
            1, w3)

\* The open of the destination in write_filtered_archive. A str path is
\* opened with os.open(file, O_CREAT | O_WRONLY) and the file object handed to
\* ZipFile(mode='x'); any other path goes to ZipFile(mode='x') as it is, which
\* opens it with 'x+b'.
OpenDestination(file, kind) ==
  IF kind = "str" THEN NoError
  ELSE IF file # Absent THEN FileExistsError
  ELSE NoError

\* ---------------------------------------------------------------- inputs

MaxAccounts == 2
MaxFiles == 2

\* Sequences over 1..n of length at most k.
RECURSIVE SeqsUpTo(_, _)
SeqsUpTo(n, k) ==
  IF k = 0 THEN {<<>>}
  ELSE LET shorter == SeqsUpTo(n, k - 1)
       IN shorter \cup {Append(q, x) : q \in shorter, x \in 1..n}

d1 == Str(<<"d", "1">>)
d2 == Str(<<"d", "2">>)
d7 == Str(<<"d", "7">>)
d9 == Str(<<"d", "9">>)

\* Items: a document id under nested dicts; in a dict of a list and in a list
\* of a list; a 'documentId' that is no str, and strings that sit under
\* another key or directly in a list; a second item of uuid i1.
ItemNested ==
  Dict([uuid |-> Str("i1"),
        details |-> Dict([documentAttributes |-> Dict([documentId |-> d1])])])
ItemLists ==
  Dict([uuid |-> Str("i2"),
        files |-> List(<<Dict([documentId |-> d2]),
                         List(<<Dict([documentId |-> d9])>>)>>)])
ItemNone ==
  Dict([uuid |-> Str("i3"), documentId |-> Num(7), other |-> d7,
        tags |-> List(<<d7>>)])
ItemTop == Dict([uuid |-> Str("i1"), documentId |-> d2])

Vault(uuid, name, items) ==
  Dict([attrs |-> Dict([uuid |-> Str(uuid), name |-> Str(name)]),
        items |-> List(items)])

Account(uuid, name, accountName, vaults) ==
  Dict([attrs |-> Dict([uuid |-> Str(uuid), name |-> Str(name),
                        accountName |-> Str(accountName)]),
        vaults |-> List(vaults)])

\* Accounts: three that go together, then one with two vaults of one uuid
\* (and the uuid of the first account), one with two vaults of one name (and
\* the name of the second account), one with a vault of two items of one uuid.
AccountPool ==
  << Account("a1", "A", "Alpha",
             <<Vault("v1", "Personal", <<ItemNested>>),
               Vault("v2", "Work", <<ItemLists, ItemNone>>)>>),
     Account("a2", "B", "Beta", <<Vault("v5", "Personal", <<ItemTop>>)>>),
     Account("a3", "C", "Alpha", <<Vault("v1", "Misc", <<ItemNone, ItemTop>>)>>),
     Account("a1", "D", "Delta",
             <<Vault("v1", "Personal", <<>>), Vault("v1", "Other", <<>>)>>),
     Account("a5", "B", "Echo",
             <<Vault("v2", "Work", <<>>), Vault("v3", "Work", <<>>)>>),
     Account("a6", "F", "Fox", <<Vault("v4", "Dup", <<ItemNested, ItemTop>>)>>) >>

\* The bytes of export.data for the accounts at the places q of the pool.
ExportData(q) ==
  [json |-> Dict([attrs |-> Dict([version |-> Num(3)]),
                  accounts |-> List([i \in 1..Len(q) |-> AccountPool[q[i]]])])]

\* Names of further entries: files of documents d1, d2 (no underscore) and
\* d7 (no item refers to it), and an entry outside files/.
FilePool ==
  << Str(<<"f","i","l","e","s","/","d","1","_","a">>),
     Str(<<"f","i","l","e","s","/","d","2">>),
     Str(<<"f","i","l","e","s","/","d","7","_","x","_","y">>),
     Str(<<"d","1","_","a">>) >>

\* The further entries named at the places q of the pool; the content of each
\* is its own.
FileEntries(q) ==
  [i \in 1..Len(q) |-> [filename |-> FilePool[q[i]], content |-> [bytes |-> <<"doc", ToString(i)>>]]]

AttributesEntry ==
  [filename |-> EXPORT_ATTRIBUTES, content |-> [bytes |-> <<"attributes">>]]
DataEntry(accounts) == [filename |-> EXPORT_DATA, content |-> ExportData(accounts)]
DirEntry == [filename |-> FILES_DIR, content |-> EmptyBytes]

\* JSON roots with a required key missing or of the wrong type: at the root,
\* in an account, in a vault.
GoodAttrs == Dict([uuid |-> Str("a1"), name |-> Str("A"), accountName |-> Str("Alpha")])
GoodVault == Vault("v1", "Personal", <<ItemNested>>)
RootOf(account) ==
  Dict([attrs |-> Dict([version |-> Num(3)]), accounts |-> List(<<account>>)])
MalformedRoots ==
  { Dict([attrs |-> Dict([version |-> Num(3)])]),
    Dict([attrs |-> Dict([version |-> Num(3)]), accounts |-> Num(7)]),
    Dict([attrs |-> Dict([version |-> Num(3)]), accounts |-> Dict(<<>>)]),
    RootOf(Dict([vaults |-> List(<<GoodVault>>)])),
    RootOf(Dict([attrs |-> List(<<>>), vaults |-> List(<<GoodVault>>)])),
    RootOf(Dict([attrs |-> GoodAttrs])),
    RootOf(Dict([attrs |-> GoodAttrs, vaults |-> Dict(<<>>)])),
    RootOf(Dict([attrs |-> GoodAttrs,
                 vaults |-> List(<<Dict([items |-> List(<<>>)])>>)])),
    RootOf(Dict([attrs |-> GoodAttrs,
                 vaults |-> List(<<Dict([attrs |-> List(<<>>),
                                         items |-> List(<<>>)])>>)])),
    RootOf(Dict([attrs |-> GoodAttrs,
                 vaults |-> List(<<GoodVault,
                                   Dict([attrs |-> GoodVault.d.attrs])>>)])),
    RootOf(Dict([attrs |-> GoodAttrs,
                 vaults |-> List(<<Dict([attrs |-> GoodVault.d.attrs,
                                         items |-> Dict(<<>>)])>>)])) }

\* Source containers: with and without the files/ entry, one without
\* export.data, and one for each malformed root.
Containers ==
  { <<AttributesEntry, DataEntry(a), DirEntry>> \o FileEntries(f) :
      a \in SeqsUpTo(Len(AccountPool), MaxAccounts),
      f \in SeqsUpTo(Len(FilePool), MaxFiles) }
  \cup { <<AttributesEntry, DataEntry(a)>> \o FileEntries(f) :
           a \in SeqsUpTo(Len(AccountPool), MaxAccounts),
           f \in SeqsUpTo(Len(FilePool), MaxFiles) }
  \cup { <<AttributesEntry, DirEntry>> }
  \cup { <<AttributesEntry,
           [filename |-> EXPORT_DATA, content |-> [json |-> root]],
           DirEntry>> \o FileEntries(<<1>>) : root \in MalformedRoots }

\* Selection specs (include_vault_names).
SelectionSpecs ==
  { None,
    List(<<>>),
    List(<<Str("Personal")>>),
    List(<<Str("v2")>>),
    List(<<Str("*")>>),
    List(<<Tuple(Str("*"), Str("*"))>>),
    List(<<Tuple(Str("A"), Str("Work"))>>),
    List(<<Tuple(Str("a2"), Str("*"))>>),
    List(<<Str("Nope")>>),
    List(<<Tuple(Str("B"), Str("Nope"))>>),
    List(<<Tuple(Str("Zed"), Str("Personal"))>>),
    List(<<Tuple(Str("a3"), Str("v1")), Str("Work")>>) }

\* ----------------------------------------------------------------- state

VARIABLES
  fs,                   \* the files at the paths "in", "out", "out2", "old"
  pc,                   \* "new", "open" (constructed), "failed", "closed"
  pass,                 \* 1: the archive is built on "in"; 2: on "out"
  file,                 \* the path the archive was opened on
  include_vault_names,  \* the selection spec it was opened with
  handle,               \* self._zf: "none", "open", "closed"
  ar,                   \* the archive object
  dest,                 \* the path write_filtered_archive was called with, "" if not
  err                   \* the error the last call raised

vars == <<fs, pc, pass, file, include_vault_names, handle, ar, dest, err>>

Init ==
  /\ fs \in { [in |-> [zip |-> c, over |-> Absent], out |-> Absent,
               out2 |-> Absent, old |-> OldFile] : c \in Containers }
  /\ pc = "new"
  /\ pass = 1
  /\ file = "in"
  /\ include_vault_names = None
  /\ handle = "none"
  /\ ar = EmptyArchive(<<>>)
  /\ dest = ""
  /\ err = NoError

\* OnePasswordArchive(file, include_vault_names=spec): ZipFile(file) opens
\* the handle, then the rest of __init__ runs; when it raises, nothing closes
\* the handle. The first archive is built on "in"; once it has written "out"
\* and is closed, a second is built on "out" with the same spec.
Open(path, spec) ==
  /\ \/ pc = "new" /\ path = "in" /\ pass' = 1
     \/ /\ pc = "closed" /\ pass = 1 /\ dest = "out" /\ err = NoError
        /\ path = "out" /\ spec = include_vault_names /\ pass' = 2
  /\ ar' = ArchiveInit(fs[path].zip, spec)
  /\ err' = ar'.err
  /\ pc' = IF ar'.err = NoError THEN "open" ELSE "failed"
  /\ handle' = "open"
  /\ file' = path
  /\ include_vault_names' = spec
  /\ dest' = ""
  /\ UNCHANGED fs

\* archive.get_filtered_data()
CallGetFilteredData ==
  /\ pc = "open"
  /\ ar.filtered_data = 0
  /\ ar' = GetFilteredData(ar)
  /\ err' = NoError
  /\ UNCHANGED <<fs, pc, pass, file, include_vault_names, handle, dest>>

\* archive.write_filtered_archive(path), path a str or an os.PathLike; called
\* at most once on an archive object.
WriteFilteredArchive(path, kind) ==
  /\ pc = "open"
  /\ dest = ""
  /\ path \in (IF pass = 1 THEN {"out", "old"} ELSE {"out2", "old"})
  /\ dest' = path
  /\ IF OpenDestination(fs[path], kind) # NoError
     THEN /\ err' = OpenDestination(fs[path], kind)
          /\ UNCHANGED <<fs, ar>>
     ELSE LET ar1 == GetFilteredData(ar)
              w == WriteEntries(fs[file].zip, ar1)
          IN /\ fs' = [fs EXCEPT ![path] = [zip |-> w.entries, over |-> fs[path]]]
             /\ ar' = IF GetInfo(fs[file].zip, EXPORT_ATTRIBUTES) = 0 THEN ar ELSE ar1
             /\ err' = w.err
  /\ UNCHANGED <<pc, pass, file, include_vault_names, handle>>

\* __exit__ / close at the end of "with OnePasswordArchive(...) as archive".
Close ==
  /\ pc = "open"
  /\ handle' = "closed"
  /\ pc' = "closed"
  /\ UNCHANGED <<fs, pass, file, include_vault_names, ar, dest, err>>

Next ==
  \/ \E path \in {"in", "out"}, spec \in SelectionSpecs : Open(path, spec)
  \/ CallGetFilteredData
  \/ \E path \in {"out", "out2", "old"}, kind \in {"str", "PathLike"} :
       WriteFilteredArchive(path, kind)
  \/ Close

Spec == Init /\ [][Next]_vars

\* ---------------------------------------------------------------- claims

\* An archive object exists: its construction returned.
Built == pc \in {"open", "closed"}

\* The zip the archive was opened on, and the JSON root stored in it.
SourceZip == fs[file].zip
SourceRoot == SourceZip[GetInfo(SourceZip, EXPORT_DATA)].content.json

FilteredAccounts ==
  [j \in 1..Len(ar.filtered_accounts) |-> ar.unfiltered_accounts[ar.filtered_accounts[j]]]
FilteredVaults(account) ==
  [k \in 1..Len(account.filtered_vaults) |->
     account.unfiltered_vaults[account.filtered_vaults[k]]]

\* The dicts and lists inside a JSON value, itself included, at any depth.
RECURSIVE Nested(_)
Nested(nodes) ==
  LET below ==
        UNION { IF IsDict(v)
                THEN {v.d[k] : k \in {k \in DOMAIN v.d : IsDict(v.d[k]) \/ IsList(v.d[k])}}
                ELSE {v.l[i] : i \in {i \in 1..Len(v.l) : IsDict(v.l[i]) \/ IsList(v.l[i])}}
                : v \in nodes }
  IN IF below \subseteq nodes THEN nodes ELSE Nested(nodes \cup below)

\* The string values stored under a key 'documentId' anywhere in payload.
ReferencedDocumentIds(payload) ==
  { v.d.documentId :
      v \in { v \in Nested({payload}) :
                IsDict(v) /\ "documentId" \in DOMAIN v.d /\ IsStr(v.d.documentId) } }

\* C1: filtered_document_ids is a subset of unfiltered_document_ids and is
\* exactly the union, over the vaults in the filtered view of the included
\* accounts, of the strings stored under 'documentId' at any depth of their
\* items' payloads.
C1_FilteredDocumentIds ==
  Built =>
    /\ ar.filtered_document_ids \subseteq ar.unfiltered_document_ids
    /\ ar.filtered_document_ids =
         UNION { UNION { UNION { ReferencedDocumentIds(
                                   FilteredVaults(FilteredAccounts[j])[k].raw_data.d.items.l[m]) :
                                 m \in 1..Len(FilteredVaults(FilteredAccounts[j])[k].raw_data.d.items.l) } :
                         k \in 1..Len(FilteredAccounts[j].filtered_vaults) } :
                 j \in 1..Len(ar.filtered_accounts) }

\* An account is left out, a vault of an included account is left out, and a
\* document id found in a list of a list is among the filtered ones.
C1_Witness ==
  /\ Built
  /\ Len(ar.filtered_accounts) < Len(ar.unfiltered_accounts)
  /\ \E j \in 1..Len(ar.filtered_accounts) :
       /\ FilteredAccounts[j].filtered_vaults # <<>>
       /\ Len(FilteredAccounts[j].filtered_vaults) < Len(FilteredAccounts[j].unfiltered_vaults)
  /\ d9 \in ar.filtered_document_ids
  /\ ar.filtered_document_ids # ar.unfiltered_document_ids

StrictlyIncreasing(q) == \A i, j \in 1..Len(q) : i < j => q[i] < q[j]

\* The JSON of account i of root with only the vaults at the places q kept.
AccountWithVaults(root, i, q) ==
  LET a == root.d.accounts.l[i]
  IN Dict([k \in DOMAIN a.d |->
             IF k = "vaults" THEN List([n \in 1..Len(q) |-> a.d.vaults.l[q[n]]])
             ELSE a.d[k]])

\* C2: the filtered root is the unfiltered root with only 'accounts'
\* replaced: the included accounts in their original order, each with the
\* payloads of its filtered vaults in their original order and its other
\* attributes unchanged; the unfiltered root is as it was loaded.
C2_FilteredRoot ==
  (Built /\ ar.filtered_data # 0) =>
    LET filtered == Deref(ar.heap, Ref(ar.filtered_data))
        unfiltered == Deref(ar.heap, Ref(1))
    IN /\ unfiltered = SourceRoot
       /\ DOMAIN filtered.d = DOMAIN SourceRoot.d
       /\ \A k \in DOMAIN SourceRoot.d \ {"accounts"} : filtered.d[k] = SourceRoot.d[k]
       /\ StrictlyIncreasing(ar.filtered_accounts)
       /\ \A i \in 1..Len(ar.unfiltered_accounts) :
            StrictlyIncreasing(ar.unfiltered_accounts[i].filtered_vaults)
       /\ filtered.d.accounts =
            List([j \in 1..Len(ar.filtered_accounts) |->
                    AccountWithVaults(SourceRoot, ar.filtered_accounts[j],
                                      FilteredAccounts[j].filtered_vaults)])

\* get_filtered_data has run on an archive that leaves out an account and
\* keeps one vault of two of another.
C2_Witness ==
  /\ Built /\ ar.filtered_data # 0
  /\ Len(ar.filtered_accounts) < Len(ar.unfiltered_accounts)
  /\ \E j \in 1..Len(ar.filtered_accounts) :
       /\ FilteredAccounts[j].filtered_vaults # <<>>
       /\ Len(FilteredAccounts[j].filtered_vaults) < Len(FilteredAccounts[j].unfiltered_vaults)

\* The document id a file name stands for: what follows 'files/' up to the
\* first underscore, or all of it.
NameDocumentId(name) ==
  LET rest == SubSeq(name.s, Len(FILES_DIR.s) + 1, Len(name.s))
      cut == {k \in 1..Len(rest) : rest[k] = "_"}
  IN Str(IF cut = {} THEN rest
         ELSE SubSeq(rest, 1, (CHOOSE k \in cut : \A j \in cut : k <= j) - 1))

\* The places in zf of the document file entries whose document id is in ids.
DocumentFilesOf(zf, ids) ==
  { i \in 1..Len(zf) :
      /\ StartsWith(zf[i].filename, FILES_DIR)
      /\ zf[i].filename # FILES_DIR
      /\ NameDocumentId(zf[i].filename) \in ids }

\* write_filtered_archive has written a container at a path that held no file.
Produced == dest \in {"out", "out2"} /\ IsZip(fs[dest])

\* C3: the container write_filtered_archive produces holds export.attributes,
\* export.data with the serialized filtered root, the files/ entry and, of the
\* document files of the source, exactly those whose document id is in
\* filtered_document_ids, and nothing else.
C3_OutputEntries ==
  Produced =>
    LET out == fs[dest].zip
        kept == DocumentFilesOf(SourceZip, ar.filtered_document_ids)
    IN /\ Len(out) = 3 + Cardinality(kept)
       /\ out[1] = SourceZip[GetInfo(SourceZip, EXPORT_ATTRIBUTES)]
       /\ out[2].filename = EXPORT_DATA
       /\ out[2].content = [json |-> Deref(ar.heap, Ref(ar.filtered_data))]
       /\ out[3].filename = FILES_DIR
       /\ {out[i] : i \in 4..Len(out)} = {SourceZip[i] : i \in kept}

\* C3 for the sources that hold a files/ entry.
C3_WithFilesDir ==
  GetInfo(SourceZip, FILES_DIR) # 0 => C3_OutputEntries

\* A source without a files/ entry: the write ends with AttributeError and
\* leaves a container of two entries, though a document file is selected.
C3_Failing ==
  /\ Produced
  /\ GetInfo(SourceZip, FILES_DIR) = 0
  /\ err = AttributeError
  /\ Len(fs[dest].zip) = 2
  /\ DocumentFilesOf(SourceZip, ar.filtered_document_ids) # {}

\* A call of write_filtered_archive on a path that holds a file.
WriteOverExisting == dest = "" /\ dest' = "old"

\* C4: write_filtered_archive called with a destination path that holds a
\* file fails with an error and leaves the file as it was.
C4_ExistingDestination ==
  [][WriteOverExisting => (err' # NoError /\ fs'.old = fs.old)]_vars

\* What the call does: either it raises FileExistsError and leaves the file as
\* it was (an os.PathLike), or it writes the archive over the file (a str).
C4_EitherWay ==
  [][WriteOverExisting =>
       \/ err' = FileExistsError /\ fs'.old = fs.old
       \/ IsZip(fs'.old) /\ fs'.old.over = fs.old]_vars

\* A str path to an existing file: the call has written the archive over it.
C4_Failing ==
  /\ dest = "old"
  /\ IsZip(fs.old) /\ fs.old.over = OldFile
  /\ err = NoError

\* C5: the container handle the archive opened is released on every exit
\* path: once its construction has raised, and once the archive is closed.
C5_HandleReleased ==
  /\ pc = "failed" => handle = "closed"
  /\ pc = "closed" => handle = "closed"

\* The handle is released by close alone.
C5_ClosedOnly ==
  /\ pc = "closed" => handle = "closed"
  /\ pc \in {"open", "failed"} => handle = "open"

\* A construction that raised Filter1PuxError (a repeated identifier) after
\* ZipFile(file) had opened the handle: the handle is still open.
C5_Failing ==
  /\ pc = "failed"
  /\ err = Filter1PuxError
  /\ handle = "open"

\* The source holds an export.data entry.
HasExportData == GetInfo(SourceZip, EXPORT_DATA) # 0

\* v is a dict that holds a dict under key 'attrs' and a list under key.
HasAttrsAnd(v, key) ==
  /\ IsDict(v)
  /\ "attrs" \in DOMAIN v.d /\ IsDict(v.d.attrs)
  /\ key \in DOMAIN v.d /\ IsList(v.d[key])

\* The JSON root has the required keys with the required types: a list
\* 'accounts' of accounts with a dict 'attrs' and a list 'vaults' of vaults
\* with a dict 'attrs' and a list 'items'.
WellFormed(root) ==
  /\ IsDict(root)
  /\ "accounts" \in DOMAIN root.d /\ IsList(root.d.accounts)
  /\ \A a \in 1..Len(root.d.accounts.l) :
       /\ HasAttrsAnd(root.d.accounts.l[a], "vaults")
       /\ \A v \in 1..Len(root.d.accounts.l[a].d.vaults.l) :
            HasAttrsAnd(root.d.accounts.l[a].d.vaults.l[v], "items")

\* The source holds an export.data entry with a well-formed JSON root.
WellFormedSource == HasExportData /\ WellFormed(SourceRoot)

\* Two elements of the list q have the same attrs[key] (for an item, which
\* has no attrs, the same uuid).
SameItemUuid(q) ==
  \E i, j \in 1..Len(q) : i < j /\ q[i].d.uuid = q[j].d.uuid
SameAttr(q, key) ==
  \E i, j \in 1..Len(q) : i < j /\ q[i].d.attrs.d[key] = q[j].d.attrs.d[key]

\* The JSON root holds a repeated identifier: accounts of one uuid or name,
\* vaults of one account of one uuid or name, items of one vault of one uuid.
HasDuplicates(root) ==
  LET accounts == root.d.accounts.l
  IN \/ SameAttr(accounts, "uuid")
     \/ SameAttr(accounts, "name")
     \/ \E a \in 1..Len(accounts) :
          LET vaults == accounts[a].d.vaults.l
          IN \/ SameAttr(vaults, "uuid")
             \/ SameAttr(vaults, "name")
             \/ \E v \in 1..Len(vaults) : SameItemUuid(vaults[v].d.items.l)

\* C6: whenever the JSON root holds a repeated item uuid in a vault, vault
\* uuid or name in an account, or account uuid or name, the construction
\* raises Filter1PuxError and yields no archive, whatever the selection spec.
C6_Duplicates ==
  (handle # "none" /\ WellFormedSource /\ HasDuplicates(SourceRoot)) =>
    (pc = "failed" /\ err = Filter1PuxError)

\* A construction has raised on two vaults of one name in an account that
\* the selection spec does not name.
C6_Witness ==
  /\ pc = "failed" /\ err = Filter1PuxError
  /\ include_vault_names = List(<<Tuple(Str("Zed"), Str("Personal"))>>)
  /\ WellFormedSource
  /\ \E a \in 1..Len(SourceRoot.d.accounts.l) :
       /\ SameAttr(SourceRoot.d.accounts.l[a].d.vaults.l, "name")
       /\ ~SameAttr(SourceRoot.d.accounts.l[a].d.vaults.l, "uuid")
  /\ ~SameAttr(SourceRoot.d.accounts.l, "uuid")
  /\ ~SameAttr(SourceRoot.d.accounts.l, "name")

\* Without a repeated identifier the construction succeeds.
C6_OnlyDuplicates ==
  (handle # "none" /\ WellFormedSource /\ ~HasDuplicates(SourceRoot)) =>
    pc # "failed"

\* The selection spec is None or the single pair ('*', '*').
SelectsAll ==
  include_vault_names \in {None, List(<<Tuple(Str("*"), Str("*"))>>)}

\* The places 1..Len(q) in order: a filtered list that is the whole
\* unfiltered list q.
Whole(q) == [i \in 1..Len(q) |-> i]

\* C7: when the selection spec is None or only the pair ('*', '*'), the
\* filtered account list is the unfiltered one, every account's filtered
\* vault list and JSON are its unfiltered ones, filtered_document_ids equals
\* unfiltered_document_ids, and the filtered JSON root has the payload of the
\* unfiltered root.
C7_SelectAll ==
  (Built /\ SelectsAll /\ WellFormed(SourceRoot)) =>
    /\ ar.filtered_accounts = Whole(ar.unfiltered_accounts)
    /\ ar.filtered_accounts_by_uuid = ar.unfiltered_accounts_by_uuid
    /\ ar.filtered_accounts_by_name = ar.unfiltered_accounts_by_name
    /\ \A i \in 1..Len(ar.unfiltered_accounts) :
         LET account == ar.unfiltered_accounts[i]
         IN /\ account.filtered_vaults = Whole(account.unfiltered_vaults)
            /\ account.filtered_data = account.unfiltered_data
            /\ account.filtered_document_ids = account.unfiltered_document_ids
    /\ ar.filtered_document_ids = ar.unfiltered_document_ids
    /\ ar.filtered_data # 0 =>
         Deref(ar.heap, Ref(ar.filtered_data)) = Deref(ar.heap, Ref(1))

\* get_filtered_data has run on an archive of two accounts, one of two
\* vaults, opened with the pair ('*', '*'); its items refer to documents.
C7_Witness ==
  /\ Built /\ include_vault_names = List(<<Tuple(Str("*"), Str("*"))>>)
  /\ ar.filtered_data # 0
  /\ Len(ar.unfiltered_accounts) = 2
  /\ \E i \in 1..2 : Len(ar.unfiltered_accounts[i].unfiltered_vaults) = 2
  /\ d9 \in ar.filtered_document_ids

\* The filtered root is never the root object itself: get_filtered_data
\* copies it.
C7_RootIsCopy ==
  (Built /\ ar.filtered_data # 0) => ar.filtered_data # 1

\* The second archive, built on the output of the first with the same
\* selection spec, has written its own output.
WrittenAgain == pass = 2 /\ dest = "out2"

\* C8: the output of write_filtered_archive, opened with the same selection
\* spec and written again, gives the same entries: the same export.data
\* payload and the same document files, in the same order, with the same
\* contents.
C8_Idempotent ==
  /\ pass = 2 => pc # "failed"
  /\ WrittenAgain =>
       /\ err = NoError
       /\ IsZip(fs.out2)
       /\ fs.out2.zip = fs.out.zip

\* The first pass left out an account and a document file and kept a
\* document file; the second pass has written its output.
C8_Witness ==
  /\ WrittenAgain
  /\ Len(fs.out.zip) = 4
  /\ Len(fs.in.zip) > 4
  /\ Len(fs.in.zip[GetInfo(fs.in.zip, EXPORT_DATA)].content.json.d.accounts.l)
       > Len(fs.out.zip[2].content.json.d.accounts.l)

\* The account and the vault a selection token names: a bare string names
\* the vault in every account.
TokenAccount(tok) == IF IsTuple(tok) THEN tok.t[1] ELSE Str("*")
TokenVault(tok) == IF IsTuple(tok) THEN tok.t[2] ELSE tok

\* Some vault of some account of root has this name or uuid.
VaultKnown(root, name) ==
  \E a \in 1..Len(root.d.accounts.l) :
    \E v \in 1..Len(root.d.accounts.l[a].d.vaults.l) :
      LET attrs == root.d.accounts.l[a].d.vaults.l[v].d.attrs.d
      IN attrs.name = name \/ attrs.uuid = name

\* The selection spec names vaults only, and none that any account holds.
OnlyUnknownVaults ==
  /\ WellFormed(SourceRoot)
  /\ include_vault_names # None
  /\ include_vault_names.l # <<>>
  /\ \A t \in 1..Len(include_vault_names.l) :
       LET name == TokenVault(include_vault_names.l[t])
       IN name \notin {Str("*"), None} /\ ~VaultKnown(SourceRoot, name)

\* Account i of the source is named by a token of the selection spec.
AccountNamed(i) ==
  \E t \in 1..Len(include_vault_names.l) :
    LET name == TokenAccount(include_vault_names.l[t])
        attrs == SourceRoot.d.accounts.l[i].d.attrs.d
    IN name \in {Str("*"), None, attrs.name, attrs.uuid}

\* The container a write_filtered_archive has written holds no document file.
NoDocumentFilesWritten ==
  (dest # "" /\ IsZip(fs[dest])) =>
    \A i \in 1..Len(fs[dest].zip) :
      StartsWith(fs[dest].zip[i].filename, FILES_DIR) =>
        fs[dest].zip[i].filename = FILES_DIR

\* Every account's filtered vault list and the filtered document ids are
\* empty, and so is every 'vaults' list of the filtered JSON root.
NoVaultsSelected ==
  /\ \A i \in 1..Len(ar.unfiltered_accounts) :
       /\ ar.unfiltered_accounts[i].filtered_vaults = <<>>
       /\ ar.unfiltered_accounts[i].filtered_document_ids = {}
  /\ ar.filtered_document_ids = {}
  /\ ar.filtered_data # 0 =>
       \A j \in 1..Len(ar.filtered_accounts) :
         Deref(ar.heap, Ref(ar.filtered_data)).d.accounts.l[j].d.vaults = List(<<>>)

\* C9 as stated: when the selection spec refers only to a vault name that no
\* account holds, the filtered account list, the filtered vault lists and
\* filtered_document_ids are empty and the output has no document files.
C9_AllEmpty ==
  (Built /\ OnlyUnknownVaults) =>
    /\ ar.filtered_accounts = <<>>
    /\ NoVaultsSelected
    /\ NoDocumentFilesWritten

\* C9 amended: the filtered vault lists and filtered_document_ids are empty
\* and the output has no document files; the filtered account list holds, in
\* order, the accounts the tokens name (every account for a bare vault name),
\* each with an empty vault list.
C9_NoSuchVault ==
  (Built /\ OnlyUnknownVaults) =>
    /\ StrictlyIncreasing(ar.filtered_accounts)
    /\ {ar.filtered_accounts[j] : j \in 1..Len(ar.filtered_accounts)} =
         {i \in 1..Len(ar.unfiltered_accounts) : AccountNamed(i)}
    /\ NoVaultsSelected
    /\ NoDocumentFilesWritten

\* An archive opened with a bare vault name that no account holds has
\* written its output: its accounts are all in the filtered list, its items
\* refer to documents and its source holds a file of one of them.
C9_Witness ==
  /\ Built /\ OnlyUnknownVaults
  /\ ~IsTuple(include_vault_names.l[1])
  /\ dest # "" /\ IsZip(fs[dest]) /\ err = NoError
  /\ ar.filtered_accounts # <<>>
  /\ DocumentFilesOf(SourceZip, ar.unfiltered_document_ids) # {}

\* The document ids the names of the document files of zf stand for.
NamedDocumentIds(zf) ==
  { NameDocumentId(zf[i].filename) :
      i \in { i \in 1..Len(zf) : /\ StartsWith(zf[i].filename, FILES_DIR)
                                  /\ zf[i].filename # FILES_DIR } }

\* One file entry for each document id of ids.
RECURSIVE FilesFor(_)
FilesFor(ids) ==
  IF ids = {} THEN <<>>
  ELSE LET id == CHOOSE id \in ids : TRUE
       IN <<[filename |-> Str(FILES_DIR.s \o id.s), content |-> EmptyBytes]>>
          \o FilesFor(ids \ {id})

\* The source with its document files replaced by one file for each document
\* id its items refer to.
MatchedZip ==
  << SourceZip[GetInfo(SourceZip, EXPORT_ATTRIBUTES)],
     SourceZip[GetInfo(SourceZip, EXPORT_DATA)], DirEntry >>
  \o FilesFor(ReferencedDocumentIds(SourceRoot))

\* The accounts, filtered views and document id sets of two archives are the
\* same.
SameViews(x, y) ==
  /\ x.err = y.err
  /\ x.unfiltered_accounts = y.unfiltered_accounts
  /\ x.unfiltered_accounts_by_uuid = y.unfiltered_accounts_by_uuid
  /\ x.unfiltered_accounts_by_name = y.unfiltered_accounts_by_name
  /\ x.unfiltered_document_ids = y.unfiltered_document_ids
  /\ x.filtered_accounts = y.filtered_accounts
  /\ x.filtered_accounts_by_uuid = y.filtered_accounts_by_uuid
  /\ x.filtered_accounts_by_name = y.filtered_accounts_by_name
  /\ x.filtered_document_ids = y.filtered_document_ids

\* The archive x has no document id without a file and no file without one,
\* and the views of the archive of the state are the same as its.
SameAsMatched(x) ==
  /\ x.missing_file_document_ids = {}
  /\ x.extra_file_document_ids = {}
  /\ SameViews(ar, x)

\* C10: a source with export.data and no repeated identifier constructs
\* whatever its document files are; missing is the referenced document ids
\* without a file and extra the ids of files no item refers to; the accounts,
\* filtered views and document id sets are those of the same source with
\* matching files.
C10_Mismatches ==
  (handle # "none" /\ WellFormedSource /\ ~HasDuplicates(SourceRoot)) =>
    /\ pc # "failed"
    /\ ar.missing_file_document_ids =
         ar.unfiltered_document_ids \ NamedDocumentIds(SourceZip)
    /\ ar.extra_file_document_ids =
         NamedDocumentIds(SourceZip) \ ar.unfiltered_document_ids
    /\ SameAsMatched(ArchiveInit(MatchedZip, include_vault_names))

\* An archive is built whose items refer to d9, which has no file, and whose
\* source holds a file no item refers to.
C10_Witness ==
  /\ Built
  /\ d9 \in ar.missing_file_document_ids
  /\ ar.extra_file_document_ids # {}
  /\ ar.filtered_document_ids # {}

\* A token of the selection spec names account i of the source (a bare token
\* names every account) and its vault k ('*' names every vault).
TokenSelects(i, k) ==
  \E t \in 1..Len(include_vault_names.l) :
    LET tok == include_vault_names.l[t]
        account == SourceRoot.d.accounts.l[i].d.attrs.d
        vault == SourceRoot.d.accounts.l[i].d.vaults.l[k].d.attrs.d
    IN /\ TokenAccount(tok) \in {Str("*"), account.name, account.uuid}
       /\ TokenVault(tok) \in {Str("*"), vault.name, vault.uuid}

\* The places a list of places holds.
Places(q) == {q[j] : j \in 1..Len(q)}

\* C11: for a selection spec that is not None, vault k of account i is in the
\* filtered view of i, and i in the filtered account list, exactly when a
\* token names both; an account no token names is left out with an empty
\* filtered view, and an empty spec selects nothing.
C11_Selection ==
  (Built /\ include_vault_names # None) =>
    /\ \A i \in 1..Len(ar.unfiltered_accounts) :
         /\ \A k \in 1..Len(ar.unfiltered_accounts[i].unfiltered_vaults) :
              (/\ i \in Places(ar.filtered_accounts)
               /\ k \in Places(ar.unfiltered_accounts[i].filtered_vaults))
              <=> TokenSelects(i, k)
         /\ ~AccountNamed(i) =>
              /\ i \notin Places(ar.filtered_accounts)
              /\ ar.unfiltered_accounts[i].filtered_vaults = <<>>
    /\ include_vault_names.l = <<>> => ar.filtered_accounts = <<>>

\* An archive of two accounts that each hold a vault of uuid v1, opened with
\* the pair (a3, v1) and the bare name Work: v1 of a3 is selected, v1 of the
\* other account is not, its vault Work is.
C11_Witness ==
  /\ Built
  /\ include_vault_names = List(<<Tuple(Str("a3"), Str("v1")), Str("Work")>>)
  /\ Len(ar.unfiltered_accounts) = 2
  /\ \E i, j \in 1..2 :
       /\ VaultUuid(ar.unfiltered_accounts[i].unfiltered_vaults[1]) = Str("v1")
       /\ ar.unfiltered_accounts[i].filtered_vaults = <<2>>
       /\ VaultUuid(ar.unfiltered_accounts[j].unfiltered_vaults[1]) = Str("v1")
       /\ ar.unfiltered_accounts[j].filtered_vaults = <<1>>

\* C12: whenever a required key of the JSON root is missing or of the wrong
\* type - 'accounts' of the root, 'attrs' or 'vaults' of an account, 'attrs'
\* or 'items' of a vault - the construction raises Filter1PuxError and yields
\* no archive.
C12_Malformed ==
  (handle # "none" /\ HasExportData /\ ~WellFormed(SourceRoot)) =>
    (pc = "failed" /\ err = Filter1PuxError)

\* The root, and every account in it, has its 'accounts' list and its 'attrs'
\* dict: what is missing or mistyped is 'vaults' of an account or 'attrs' or
\* 'items' of a vault.
AccountsHaveAttrs(root) ==
  /\ IsDict(root)
  /\ "accounts" \in DOMAIN root.d /\ IsList(root.d.accounts)
  /\ \A a \in 1..Len(root.d.accounts.l) :
       /\ IsDict(root.d.accounts.l[a])
       /\ "attrs" \in DOMAIN root.d.accounts.l[a].d
       /\ IsDict(root.d.accounts.l[a].d.attrs)

\* C12 for the keys OnePasswordAccountData and OnePasswordVaultData test
\* themselves.
C12_BelowAttrs ==
  (handle # "none" /\ HasExportData /\ ~WellFormed(SourceRoot)
     /\ AccountsHaveAttrs(SourceRoot)) =>
    (pc = "failed" /\ err = Filter1PuxError)

\* What the construction does for the keys the account loop reads itself:
\* KeyError for a missing key, TypeError for a mistyped one, and no error at
\* all for an 'accounts' that is an empty dict.
C12_AtAccountLoop ==
  (handle # "none" /\ HasExportData /\ ~AccountsHaveAttrs(SourceRoot)) =>
    \/ pc = "failed" /\ err \in {KeyError, TypeError}
    \/ /\ pc # "failed"
       /\ SourceRoot.d.accounts = Dict(<<>>)
       /\ ar.unfiltered_accounts = <<>>

\* A root without 'accounts': the construction has raised KeyError.
C12_Failing ==
  /\ pc = "failed"
  /\ HasExportData
  /\ "accounts" \notin DOMAIN SourceRoot.d
  /\ err = KeyError

\* A write_filtered_archive has ended without error.
WrittenWhole == dest # "" /\ IsZip(fs[dest]) /\ err = NoError

\* The first place in zf of an entry of this name.
FirstOf(zf, name) ==
  CHOOSE i \in 1..Len(zf) :
    zf[i].filename = name /\ \A j \in 1..(i - 1) : zf[j].filename # name

\* The n-th smallest of a set of places.
Nth(places, n) ==
  CHOOSE p \in places : Cardinality({q \in places : q < p}) = n - 1

\* C13: in one write_filtered_archive every name of the destination is
\* written once, also when a 'files/...' name occurs more than once in the
\* source: of a repeated name whose document id is selected only the first
\* occurrence in source order is written.
C13_WrittenOnce ==
  WrittenWhole =>
    LET out == fs[dest].zip
    IN /\ \A i, j \in 1..Len(out) : i < j => out[i].filename # out[j].filename
       /\ \A i \in 4..Len(out) : out[i] = SourceZip[FirstOf(SourceZip, out[i].filename)]

\* What is written: every occurrence of every selected document file, in
\* source order, repeated names included.
C13_EveryOccurrence ==
  WrittenWhole =>
    LET out == fs[dest].zip
        kept == DocumentFilesOf(SourceZip, ar.filtered_document_ids)
    IN /\ Len(out) = 3 + Cardinality(kept)
       /\ \A n \in 1..Cardinality(kept) : out[3 + n] = SourceZip[Nth(kept, n)]

\* The source holds two files of one name and different contents whose
\* document id is selected: both are in the destination.
C13_Failing ==
  /\ WrittenWhole
  /\ Len(fs[dest].zip) = 5
  /\ fs[dest].zip[4].filename = fs[dest].zip[5].filename
  /\ fs[dest].zip[4].content # fs[dest].zip[5].content

====
